---------------------------- MODULE Spec2Model ----------------------------
(***************************************************************************)
(* Project-Zero: the tactical session server (src/server/routes.ts over    *)
(* src/server/storage.ts) and the client's fog-of-war filter               *)
(* (TacticalMap, src/unnamed/part_003).                                    *)
(*                                                                         *)
(* Units.  Latitudes and longitudes are integers in microdegrees.          *)
(* Headings are degrees, speeds are integers.  A value that arrives in a   *)
(* socket payload is a JavaScript value and may be no finite number: it is *)
(* a record [k, v] with k one of "num", "NaN", "Infinity", "-Infinity",    *)
(* "undefined", "string"; v is the number when k = "num".  What the store  *)
(* holds is always a plain integer.                                        *)
(*                                                                         *)
(* Time.  now is the wall clock (new Date(), defaultNow()); it advances    *)
(* only by Tick, so two handlers that run within one clock unit stamp the  *)
(* same time.  NoTime stands for a null timestamp column.                  *)
(*                                                                         *)
(* Handlers are taken as one step each: every await of a handler is a      *)
(* store call or an adapter call of that same handler.  Where handlers     *)
(* interleave at their awaits (join, alert:create) the steps between the   *)
(* awaits are taken one by one, the suspended handler waiting in pending.  *)
(***************************************************************************)
EXTENDS Integers, Sequences, FiniteSets, TLC

(* ------------------------------ bounds ------------------------------- *)
MaxSockets == 2      \* connections opened during a run
MaxLogs == 2         \* ConnectionLog records
MaxMessages == 1     \* PcMessage records
MaxAlerts == 1       \* Alert records
MaxRouteChanges == 2 \* RouteChange records
MaxClock == 2        \* last value of the wall clock
MaxPending == 2      \* handlers waiting at an await at one time
MaxWaypoints == 3    \* Waypoint records at one time

(* ------------------------- program constants ------------------------- *)
NoTime == 0          \* a null timestamp
BootTime == 1        \* the clock when registerRoutes has run

Null == "null"

\* vehicleTypeEnum: the seven roles
Roles == {"CONVOY_1", "CONVOY_2", "CONVOY_3", "CONVOY_4", "RECO", "A400M", "PC"}

\* initializeVehicles: the rows of the vehicles table (there is no PC row)
vehicleData ==
  [ CONVOY_1 |-> [latitude |-> 17420000, longitude |-> -4180000, heading |-> 0],
    CONVOY_2 |-> [latitude |-> 17415000, longitude |-> -4185000, heading |-> 0],
    CONVOY_3 |-> [latitude |-> 17410000, longitude |-> -4190000, heading |-> 0],
    CONVOY_4 |-> [latitude |-> 17405000, longitude |-> -4195000, heading |-> 0],
    RECO     |-> [latitude |-> 17450000, longitude |-> -4150000, heading |-> 0],
    A400M    |-> [latitude |-> 17600000, longitude |-> -3800000, heading |-> 270] ]

VehicleIds == DOMAIN vehicleData

SocketIds == 1..MaxSockets

(* --------------------------- JavaScript values ----------------------- *)
Num(n) == [k |-> "num", v |-> n]
NaN == [k |-> "NaN", v |-> 0]
Infinity == [k |-> "Infinity", v |-> 0]
NegInfinity == [k |-> "-Infinity", v |-> 0]
Undefined == [k |-> "undefined", v |-> 0]
NotANumber == [k |-> "string", v |-> 0]

\* typeof x === 'number'
IsNumberType(x) == x.k \in {"num", "NaN", "Infinity", "-Infinity"}
\* isNaN(x) for a value of type number
IsNaN(x) == x.k = "NaN"
\* Number.isFinite(x) taken as typeof x === 'number' && !isNaN(x)
IsNotNaN(x) == x.k \in {"num", "Infinity", "-Infinity"}
\* Number.isFinite(x)
IsFinite(x) == x.k = "num"

Max(a, b) == IF a >= b THEN a ELSE b
Min(a, b) == IF a <= b THEN a ELSE b

(* ------------------------------- state ------------------------------- *)
VARIABLES
  vehicles,          \* table vehicles: id -> row
  alerts,            \* table alerts, in insertion order
  mission,           \* table missions: << >> or <<row>>
  messages,          \* table pc_messages, in insertion order
  connectionLogs,    \* table connection_logs, in insertion order
  routeChanges,      \* table route_changes, in insertion order
  connectedClients,  \* routes.ts:12, Map vehicleId -> socket
  sockets,           \* per connection: status and the closure's vehicleId
  now,               \* wall clock
  req,               \* the intent or request the last handler ran for
  emitted,           \* what the last handler emitted: <<[to, event, payload]>>
  res,               \* the last HTTP response
  currentRole,       \* a client's RoleContext.currentRole
  isReplayMode,      \* that client's Dashboard.isReplayMode
  replayPositions,   \* size of that client's Dashboard.replayPositions
  waypoints,         \* table waypoints, in insertion order
  pending,           \* handlers suspended at an await, in the order they began
  clientAlerts       \* per connection: the alerts state of its useWebSocket

store == <<vehicles, alerts, mission, messages, connectionLogs, routeChanges, waypoints>>
server == <<connectedClients, sockets, pending>>
client == <<currentRole, isReplayMode, replayPositions, clientAlerts>>
vars == <<vehicles, alerts, mission, messages, connectionLogs, routeChanges,
          connectedClients, sockets, now, req, emitted, res,
          currentRole, isReplayMode, replayPositions,
          waypoints, pending, clientAlerts>>

NoReq == [op |-> "none"]
NoRes == [status |-> 0, body |-> "none"]

Init ==
  /\ vehicles = [id \in VehicleIds |->
                   [id |-> id, type |-> id,
                    latitude |-> vehicleData[id].latitude,
                    longitude |-> vehicleData[id].longitude,
                    heading |-> vehicleData[id].heading, speed |-> 0,
                    isConnected |-> FALSE, isStealthMode |-> FALSE,
                    lastUpdate |-> BootTime]]
  /\ alerts = << >>
  /\ mission = << >>
  /\ messages = << >>
  /\ connectionLogs = << >>
  /\ routeChanges = << >>
  /\ connectedClients = << >>
  /\ sockets = [s \in SocketIds |-> [status |-> "idle", vehicleId |-> Null]]
  /\ now = BootTime
  /\ req = NoReq
  /\ emitted = << >>
  /\ res = NoRes
  /\ currentRole = Null
  /\ isReplayMode = FALSE
  /\ replayPositions = 0
  /\ waypoints = << >>
  /\ pending = << >>
  /\ clientAlerts = [s \in SocketIds |-> << >>]

\* the clock advances
Tick ==
  /\ now < MaxClock
  /\ now' = now + 1
  /\ UNCHANGED <<store, server, client, req, emitted, res>>

(* ------------------------------ emission ----------------------------- *)
\* the sockets of the namespace: io.emit reaches each of them
OpenSockets == {s \in SocketIds : sockets[s].status = "open"}

\* io.emit(event, payload)
ioEmit(event, payload) == [to |-> OpenSockets, event |-> event, payload |-> payload]
\* socket.emit(event, payload) on one socket object
socketEmit(s, event, payload) == [to |-> {s}, event |-> event, payload |-> payload]

\* the sockets on which the last handler emitted event
Recipients(event) ==
  UNION {emitted[i].to : i \in {j \in 1..Len(emitted) : emitted[j].event = event}}


(* -------------------- storage.ts: DatabaseStorage -------------------- *)
\* a store call answers [ok, tbl, row]: ok is FALSE where the code gets
\* undefined, tbl is the table after the call, row the row returned

\* the orderings a query with ORDER BY key DESC may return: rows sorted by
\* non-increasing key, rows of equal key in any order
RowOrders(n) == {p \in [1..n -> 1..n] : \A i, j \in 1..n : i # j => p[i] # p[j]}
OrderByDesc(rows, key) ==
  {[i \in 1..Len(rows) |-> rows[p[i]]] : p \in
     {q \in RowOrders(Len(rows)) :
        \A i, j \in 1..Len(rows) : i < j => rows[q[i]][key] >= rows[q[j]][key]}}

\* storage.getVehicles
getVehicles(tbl) == tbl

\* storage.getVehicle
getVehicle(tbl, id) ==
  IF id \in DOMAIN tbl THEN [ok |-> TRUE, row |-> tbl[id]]
  ELSE [ok |-> FALSE, row |-> Null]

\* storage.updateVehicleConnection with the write left out
updateVehicleConnectionSkipped(id, isConnected) ==
  IF id \in DOMAIN vehicles
  THEN [ok |-> TRUE, tbl |-> vehicles, row |-> vehicles[id]]
  ELSE [ok |-> FALSE, tbl |-> vehicles, row |-> Null]

\* storage.updateVehicleConnection
updateVehicleConnection(id, isConnected) ==
  IF id \in DOMAIN vehicles
  THEN LET updated == [vehicles[id] EXCEPT !.isConnected = isConnected,
                                            !.lastUpdate = now]
       IN [ok |-> TRUE, tbl |-> [vehicles EXCEPT ![id] = updated], row |-> updated]
  ELSE [ok |-> FALSE, tbl |-> vehicles, row |-> Null]

\* storage.updateVehicleStealthMode writing a row for whatever id it is given
updateVehicleStealthModeUpsert(id, isStealthMode) ==
  LET updated == [id |-> id, type |-> id, latitude |-> 0, longitude |-> 0,
                  heading |-> 0, speed |-> 0, isConnected |-> FALSE,
                  isStealthMode |-> isStealthMode, lastUpdate |-> now]
  IN [ok |-> TRUE,
      tbl |-> [r \in DOMAIN vehicles \cup {id} |-> IF r = id THEN updated ELSE vehicles[r]],
      row |-> updated]

\* storage.updateVehicleStealthMode
updateVehicleStealthMode(id, isStealthMode) ==
  IF id \in DOMAIN vehicles
  THEN LET updated == [vehicles[id] EXCEPT !.isStealthMode = isStealthMode,
                                            !.lastUpdate = now]
       IN [ok |-> TRUE, tbl |-> [vehicles EXCEPT ![id] = updated], row |-> updated]
  ELSE [ok |-> FALSE, tbl |-> vehicles, row |-> Null]

\* storage.createConnectionLog: the row inserted (id: the next row number)
createConnectionLog(vehicleId, eventType, latitude, longitude) ==
  [id |-> Len(connectionLogs) + 1, vehicleId |-> vehicleId, eventType |-> eventType,
   latitude |-> latitude, longitude |-> longitude, timestamp |-> now]

\* db.insert(connectionLogs).values(log): the table gains the row, nothing else
insertConnectionLogReplacing(row) == << row >>
insertConnectionLog(row) == Append(connectionLogs, row)

\* storage.getConnectionLogs
getConnectionLogs == OrderByDesc(connectionLogs, "timestamp")

\* storage.getAlerts
getAlerts == OrderByDesc(alerts, "createdAt")

\* storage.getMessages
getMessages == OrderByDesc(messages, "createdAt")

\* storage.createMessage: the row inserted
createMessage(content, targetVehicleId) ==
  [id |-> Len(messages) + 1, content |-> content,
   targetVehicleId |-> targetVehicleId, createdAt |-> now, readAt |-> NoTime]

\* storage.getCurrentMission
getCurrentMission == mission

(* ------------------------- routes.ts: adapters ----------------------- *)
\* calculateRoute: the provider's path when it answers with one, else the
\* direct line from start to end; provided is << >> when there is no key, the
\* fetch fails or the answer has no path
DirectRoute(m) ==
  << <<m.startPointLat, m.startPointLng>>, <<m.extractionPointLat, m.extractionPointLng>> >>
calculateRoute(m, provided) ==
  IF provided # << >> THEN provided ELSE DirectRoute(m)

\* what the route provider may answer for the default mission
ProvidedRoutes ==
  { << >>,
    << <<17400000, -4200000>>, <<17600000, -3900000>>, <<17800000, -3500000>> >> }

(* ---------------------- routes.ts: socket handlers ------------------- *)
\* io.on("connection"): a new socket, its closure's vehicleId is null
Connect(s) ==
  /\ sockets[s].status = "idle"
  /\ sockets' = [sockets EXCEPT ![s] = [status |-> "open", vehicleId |-> Null]]
  /\ req' = [op |-> "connection", socket |-> s]
  /\ emitted' = << >>
  /\ UNCHANGED <<store, connectedClients, now, res, client,
                 pending>>

\* socket.on("join")
Join(s, vehicleId) ==
  /\ sockets[s].status = "open"
  /\ LET conn == updateVehicleConnection(vehicleId, TRUE)
         vehiclesAfter == IF vehicleId # "PC" THEN conn.tbl ELSE vehicles
         vehicle == getVehicle(vehiclesAfter, vehicleId)
         logged == vehicleId # "PC" /\ vehicle.ok
     IN /\ logged => Len(connectionLogs) < MaxLogs
        /\ sockets' = [sockets EXCEPT ![s].vehicleId = vehicleId]
        /\ connectedClients' =
             [r \in DOMAIN connectedClients \cup {vehicleId} |->
                IF r = vehicleId THEN s ELSE connectedClients[r]]
        /\ vehicles' = vehiclesAfter
        /\ connectionLogs' =
             IF logged
             THEN insertConnectionLog(
                         createConnectionLog(vehicleId, "CONNECTED",
                                             vehicle.row.latitude, vehicle.row.longitude))
             ELSE connectionLogs
        /\ \E al \in getAlerts, ms \in getMessages, provided \in ProvidedRoutes :
             emitted' =
               << socketEmit(s, "vehicles:sync", getVehicles(vehiclesAfter)),
                  socketEmit(s, "alerts:sync", al),
                  socketEmit(s, "messages:sync", ms) >>
               \o (IF getCurrentMission # << >>
                   THEN << socketEmit(s, "route:updated",
                                      calculateRoute(getCurrentMission[1], provided)) >>
                   ELSE << >>)
               \o << ioEmit("vehicles:sync", getVehicles(vehiclesAfter)) >>
  /\ req' = [op |-> "join", socket |-> s, vehicleId |-> vehicleId]
  /\ UNCHANGED <<alerts, mission, messages, routeChanges, now, res, client,
                 waypoints, pending>>

\* socket.on("disconnect"): the socket has left the namespace when it runs
Disconnect(s) ==
  /\ sockets[s].status = "open"
  /\ LET vehicleId == sockets[s].vehicleId
         conn == updateVehicleConnection(vehicleId, FALSE)
         vehiclesAfter == IF vehicleId # Null /\ vehicleId # "PC" THEN conn.tbl ELSE vehicles
         vehicle == getVehicle(vehiclesAfter, vehicleId)
         logged == vehicleId # Null /\ vehicleId # "PC" /\ vehicle.ok
     IN /\ logged => Len(connectionLogs) < MaxLogs
        /\ sockets' = [sockets EXCEPT ![s].status = "closed"]
        /\ connectedClients' =
             IF vehicleId # Null
             THEN [r \in DOMAIN connectedClients \ {vehicleId} |-> connectedClients[r]]
             ELSE connectedClients
        /\ vehicles' = vehiclesAfter
        /\ connectionLogs' =
             IF logged
             THEN insertConnectionLog(
                         createConnectionLog(vehicleId, "DISCONNECTED",
                                             vehicle.row.latitude, vehicle.row.longitude))
             ELSE connectionLogs
        /\ emitted' =
             IF vehicleId # Null
             THEN << [to |-> OpenSockets \ {s}, event |-> "vehicles:sync",
                      payload |-> getVehicles(vehiclesAfter)] >>
             ELSE << >>
  /\ req' = [op |-> "disconnect", socket |-> s]
  /\ UNCHANGED <<alerts, mission, messages, routeChanges, now, res, client,
                 waypoints, pending>>

\* deliverMessage with the target lookup left out: every message is broadcast
deliverMessageToAll(targetVehicleId, message) ==
  << ioEmit("message:received", message) >>

\* message:send, "Send to specific vehicle or broadcast"
deliverMessage(targetVehicleId, message) ==
  IF targetVehicleId # Null
  THEN IF targetVehicleId \in DOMAIN connectedClients
       THEN << socketEmit(connectedClients[targetVehicleId], "message:received", message) >>
       ELSE << >>
  ELSE << ioEmit("message:received", message) >>

\* socket.on("message:send")
MessageSend(s, content, targetVehicleId) ==
  /\ sockets[s].status = "open"
  /\ Len(messages) < MaxMessages
  /\ LET message == createMessage(content, targetVehicleId)
     IN /\ messages' = Append(messages, message)
        /\ emitted' = deliverMessage(targetVehicleId, message)
  /\ req' = [op |-> "message:send", socket |-> s, content |-> content,
             targetVehicleId |-> targetVehicleId]
  /\ UNCHANGED <<vehicles, alerts, mission, connectionLogs, routeChanges,
                 server, now, res, client,
                 waypoints>>

(* ---------------------- the connection registry ---------------------- *)
\* the roles the modelled clients join as, and the targets of their messages
JoinIds == {"CONVOY_1", "CONVOY_2", "PC"}
MessageTargets == {Null, "CONVOY_2"}

NextConn ==
  \/ \E s \in SocketIds : Connect(s)
  \/ \E s \in SocketIds, id \in JoinIds : Join(s, id)
  \/ \E s \in SocketIds : Disconnect(s)
  \/ \E s \in SocketIds, t \in MessageTargets : MessageSend(s, "msg", t)

SpecConn == Init /\ [][NextConn]_vars


(* ------------------------------ alerts ------------------------------- *)
\* storage.createAlert: the row inserted; status, createdAt, validatedAt and
\* validatedBy as the alerts table defaults them
createAlert(type, latitude, longitude, sourceVehicleId, imageUrl, aiAnalysis) ==
  [id |-> Len(alerts) + 1, type |-> type, status |-> "PENDING",
   latitude |-> latitude, longitude |-> longitude,
   sourceVehicleId |-> sourceVehicleId, imageUrl |-> imageUrl,
   aiAnalysis |-> aiAnalysis, createdAt |-> now,
   validatedAt |-> NoTime, validatedBy |-> Null]

\* storage.updateAlertStatus
updateAlertStatus(id, status, validatedBy) ==
  IF id \in 1..Len(alerts)
  THEN LET updated == [alerts[id] EXCEPT
                         !.status = status,
                         !.validatedBy = validatedBy,
                         !.validatedAt = IF status # "PENDING" THEN now ELSE NoTime]
       IN [ok |-> TRUE, tbl |-> [alerts EXCEPT ![id] = updated], row |-> updated]
  ELSE [ok |-> FALSE, tbl |-> alerts, row |-> Null]

\* what the classification service may answer for an image: "error" when
\* the call throws or the service is unreachable, Null when the answer has
\* no content
AiAnswers == {"error", Null, "analysis"}

\* alert:create's analysis with a failed call not caught
analyzeImageUncaught(imageUrl, answer) ==
  IF imageUrl # Null THEN answer ELSE Null

\* alert:create, "If image is provided, analyze with AI": aiAnalysis, Null
\* where the code leaves it undefined
analyzeImage(imageUrl, answer) ==
  IF imageUrl # Null /\ answer # "error" THEN answer ELSE Null

\* socket.on("alert:create"); imageUrl is Null or a data:image URL; req
\* records what the service answered, "none" when it was not called
AlertCreate(s, type, latitude, longitude, imageUrl, sourceVehicleId) ==
  /\ sockets[s].status = "open"
  /\ Len(alerts) < MaxAlerts
  /\ \E answer \in AiAnswers :
       LET aiAnalysis == analyzeImage(imageUrl, answer)
           alert == createAlert(type, latitude, longitude, sourceVehicleId,
                                imageUrl, aiAnalysis)
       IN /\ alerts' = Append(alerts, alert)
          /\ emitted' = << ioEmit("alert:created", alert) >>
          /\ req' = [op |-> "alert:create", socket |-> s, latitude |-> latitude,
                     longitude |-> longitude, imageUrl |-> imageUrl,
                     sourceVehicleId |-> sourceVehicleId,
                     answer |-> IF imageUrl # Null THEN answer ELSE "none"]
  /\ UNCHANGED <<vehicles, mission, messages, connectionLogs, routeChanges,
                 server, now, res, client,
                 waypoints>>

\* socket.on("alert:validate") and socket.on("alert:dismiss"): status is
\* "VALIDATED" for the first, "DISMISSED" for the second
AlertTransition(s, op, status, alertId, validatedBy) ==
  /\ sockets[s].status = "open"
  /\ LET alert == updateAlertStatus(alertId, status, validatedBy)
     IN /\ alerts' = alert.tbl
        /\ emitted' = IF alert.ok THEN << ioEmit("alert:updated", alert.row) >> ELSE << >>
  /\ req' = [op |-> op, socket |-> s, alertId |-> alertId, validatedBy |-> validatedBy]
  /\ UNCHANGED <<vehicles, mission, messages, connectionLogs, routeChanges,
                 server, now, res, client,
                 waypoints>>

AlertValidate(s, alertId, validatedBy) ==
  AlertTransition(s, "alert:validate", "VALIDATED", alertId, validatedBy)

AlertDismiss(s, alertId, validatedBy) ==
  AlertTransition(s, "alert:dismiss", "DISMISSED", alertId, validatedBy)

\* the alert ids a client may name (one of them never exists), the
\* identities it may give as validator, the images it may attach
AlertIdInputs == 1..(MaxAlerts + 1)
Validators == {"PC", "CONVOY_1"}
Images == {Null, "data:image"}

NextAlert ==
  \/ Tick
  \/ \E s \in SocketIds : Connect(s)
  \/ \E s \in SocketIds, img \in Images :
       AlertCreate(s, "OBSTACLE", 17421799, -4180000, img, "CONVOY_1")
  \/ \E s \in SocketIds, id \in AlertIdInputs, by \in Validators : AlertValidate(s, id, by)
  \/ \E s \in SocketIds, id \in AlertIdInputs, by \in Validators : AlertDismiss(s, id, by)

SpecAlert == Init /\ [][NextAlert]_vars

\* alert creation with and without an image, whatever the service answers
AlertTypes == {"OBSTACLE", "HOSTILE"}

NextEnrich ==
  \/ Tick
  \/ \E s \in SocketIds : Connect(s)
  \/ \E s \in SocketIds, type \in AlertTypes, img \in Images :
       AlertCreate(s, type, 17421799, -4180000, img, "CONVOY_1")

SpecEnrich == Init /\ [][NextEnrich]_vars


(* ------------------------------ mission ------------------------------ *)
\* storage.createMission with the default mission of GET /api/mission/current
createMission ==
  [id |-> "mission-1", name |-> "Extraction Convoi Alpha", status |-> "BRIEFING",
   startPointLat |-> 17400000, startPointLng |-> -4200000,
   extractionPointLat |-> 17800000, extractionPointLng |-> -3500000,
   briefingContent |-> "MISSION: Extraction Convoi Alpha", debriefingContent |-> Null,
   createdAt |-> now, startedAt |-> NoTime, completedAt |-> NoTime]

\* storage.updateMission(id, updates): updates is a record of the columns set
updateMission(id, updates) ==
  IF mission # << >> /\ mission[1].id = id
  THEN LET updated == [c \in DOMAIN mission[1] |->
                         IF c \in DOMAIN updates THEN updates[c] ELSE mission[1][c]]
       IN [ok |-> TRUE, tbl |-> <<updated>>, row |-> updated]
  ELSE [ok |-> FALSE, tbl |-> mission, row |-> Null]

\* app.get("/api/mission/current")
GetCurrentMission ==
  /\ LET created == createMission
     IN /\ mission' = IF getCurrentMission = << >> THEN <<created>> ELSE mission
        /\ res' = [status |-> 200, body |-> mission'[1]]
  /\ req' = [op |-> "GET /api/mission/current"]
  /\ emitted' = << >>
  /\ UNCHANGED <<vehicles, alerts, messages, connectionLogs, routeChanges,
                 server, now, client,
                 waypoints>>

\* app.post("/api/mission/start")
MissionStart ==
  /\ IF getCurrentMission # << >>
     THEN LET updated == updateMission(getCurrentMission[1].id,
                                       [status |-> "IN_PROGRESS", startedAt |-> now])
          IN /\ mission' = updated.tbl
             /\ res' = [status |-> 200, body |-> updated.row]
     ELSE /\ mission' = mission
          /\ res' = [status |-> 404, body |-> "No mission found"]
  /\ req' = [op |-> "POST /api/mission/start"]
  /\ emitted' = << >>
  /\ UNCHANGED <<vehicles, alerts, messages, connectionLogs, routeChanges,
                 server, now, client,
                 waypoints>>

\* what the narrative service may answer: "error" when the call throws or
\* the service is unreachable, Null when the answer has no content
DebriefAnswers == {"error", Null, "debriefing"}

\* the placeholder mission/complete starts from
DebriefPlaceholder == "Debriefing en cours de generation..."

\* mission/complete's debriefing text with a failed call not caught
debriefingTextUncaught(answer) ==
  IF answer # Null THEN answer ELSE DebriefPlaceholder

\* mission/complete: debriefingContent, the placeholder unless the service
\* answered with content
debriefingText(answer) ==
  IF answer # "error" /\ answer # Null THEN answer ELSE DebriefPlaceholder

\* app.post("/api/mission/complete"); req records what the service
\* answered, "none" when it was not called
MissionComplete ==
  /\ IF getCurrentMission # << >>
     THEN \E answer \in DebriefAnswers :
            LET updated == updateMission(getCurrentMission[1].id,
                                         [status |-> "COMPLETED", completedAt |-> now,
                                          debriefingContent |-> debriefingText(answer)])
            IN /\ mission' = updated.tbl
               /\ res' = [status |-> 200, body |-> updated.row]
               /\ req' = [op |-> "POST /api/mission/complete", answer |-> answer]
     ELSE /\ mission' = mission
          /\ res' = [status |-> 404, body |-> "No mission found"]
          /\ req' = [op |-> "POST /api/mission/complete", answer |-> "none"]
  /\ emitted' = << >>
  /\ UNCHANGED <<vehicles, alerts, messages, connectionLogs, routeChanges,
                 server, now, client,
                 waypoints>>

\* what the narrative service may answer for a briefing: "error" when the
\* call throws, Null when the answer has no content
BriefingAnswers == {"error", Null, "briefing"}

\* app.post("/api/mission/generate-briefing")
GenerateBriefing ==
  /\ IF getCurrentMission = << >>
     THEN /\ mission' = mission
          /\ res' = [status |-> 404, body |-> "No mission found"]
     ELSE \E answer \in BriefingAnswers :
            IF answer = "error"
            THEN /\ mission' = mission
                 /\ res' = [status |-> 500, body |-> "Failed to generate briefing"]
            ELSE LET updated == updateMission(getCurrentMission[1].id,
                                              [briefingContent |-> answer])
                 IN /\ mission' = updated.tbl
                    /\ res' = [status |-> 200, body |-> updated.row]
  /\ req' = [op |-> "POST /api/mission/generate-briefing"]
  /\ emitted' = << >>
  /\ UNCHANGED <<vehicles, alerts, messages, connectionLogs, routeChanges,
                 server, now, client,
                 waypoints>>

(* --------------------------- route changes --------------------------- *)
\* storage.createRouteChange: the row inserted
createRouteChange(missionId, reason, triggeredByVehicleId, newRoute) ==
  [id |-> Len(routeChanges) + 1, missionId |-> missionId, reason |-> reason,
   triggeredByVehicleId |-> triggeredByVehicleId, newRoute |-> newRoute,
   createdAt |-> now]

\* db.insert(routeChanges).values(change)
insertRouteChange(row) == Append(routeChanges, row)

\* getRouteChanges with ORDER BY asc in place of desc
getRouteChangesAsc(missionId) ==
  LET rows == SelectSeq(routeChanges, LAMBDA r : missionId = Null \/ r.missionId = missionId)
  IN {[i \in 1..Len(r) |-> r[Len(r) + 1 - i]] : r \in OrderByDesc(rows, "createdAt")}

\* storage.getRouteChanges(missionId): missionId is Null when undefined
getRouteChanges(missionId) ==
  LET rows == SelectSeq(routeChanges, LAMBDA r : missionId = Null \/ r.missionId = missionId)
  IN OrderByDesc(rows, "createdAt")

\* socket.on("route:recalculate"); reason and vehicleId are Null when the
\* payload does not give them
RouteRecalculate(s, reason, vehicleId) ==
  /\ sockets[s].status = "open"
  /\ IF getCurrentMission # << >>
     THEN \E provided \in ProvidedRoutes :
            LET m == getCurrentMission[1]
                route == calculateRoute(m, provided)
                triggeredBy == IF vehicleId # Null THEN vehicleId ELSE sockets[s].vehicleId
            IN /\ Len(routeChanges) < MaxRouteChanges
               /\ routeChanges' =
                    insertRouteChange(
                           createRouteChange(m.id,
                                             IF reason # Null THEN reason
                                             ELSE "Recalcul automatique",
                                             triggeredBy, route))
               /\ emitted' = << ioEmit("route:updated", route),
                                ioEmit("route-change:created", Null) >>
     ELSE /\ routeChanges' = routeChanges
          /\ emitted' = << >>
  /\ req' = [op |-> "route:recalculate", socket |-> s, reason |-> reason,
             vehicleId |-> vehicleId]
  /\ UNCHANGED <<vehicles, alerts, mission, messages, connectionLogs,
                 server, now, res, client,
                 waypoints>>

\* app.get("/api/route-changes")
GetRouteChanges ==
  /\ \E changes \in getRouteChanges(IF getCurrentMission # << >>
                                    THEN getCurrentMission[1].id ELSE Null) :
       res' = [status |-> 200, body |-> changes]
  /\ req' = [op |-> "GET /api/route-changes"]
  /\ emitted' = << >>
  /\ UNCHANGED <<store, server, now, client>>

NextMission ==
  \/ Tick
  \/ GetCurrentMission
  \/ MissionStart
  \/ MissionComplete
  \/ GenerateBriefing

SpecMission == Init /\ [][NextMission]_vars

NextRoute ==
  \/ Tick
  \/ \E s \in SocketIds : Connect(s)
  \/ GetCurrentMission
  \/ \E s \in SocketIds : RouteRecalculate(s, Null, Null)
  \/ GetRouteChanges

SpecRoute == Init /\ [][NextRoute]_vars

(* ---------------------------- the audit trail ------------------------- *)
\* every handler that writes a connection log or a route change record
AuditIds == {"CONVOY_1"}

NextAudit ==
  \/ \E s \in SocketIds : Connect(s)
  \/ \E s \in SocketIds, id \in AuditIds : Join(s, id)
  \/ \E s \in SocketIds : Disconnect(s)
  \/ GetCurrentMission
  \/ \E s \in SocketIds : RouteRecalculate(s, Null, Null)

SpecAudit == Init /\ [][NextAudit]_vars

(* --------------------------- vehicle position ------------------------ *)
\* updateVehiclePosition's safeHeading with the clamp left out
safeHeadingUnclamped(heading) ==
  IF IsFinite(heading) THEN heading.v ELSE 0

\* storage.updateVehiclePosition: safeHeading
safeHeading(heading) ==
  IF IsFinite(heading) THEN Max(0, Min(360, heading.v)) ELSE 0

\* updateVehiclePosition's safeSpeed with the clamp left out
safeSpeedUnclamped(speed) ==
  IF IsFinite(speed) THEN speed.v ELSE 0

\* storage.updateVehiclePosition: safeSpeed
safeSpeed(speed) ==
  IF IsFinite(speed) THEN Max(0, speed.v) ELSE 0

\* storage.updateVehiclePosition
updateVehiclePosition(id, lat, lng, heading, speed) ==
  IF ~IsFinite(lat) \/ ~IsFinite(lng)
  THEN [ok |-> FALSE, tbl |-> vehicles, row |-> Null]
  ELSE IF id \in DOMAIN vehicles
       THEN LET updated == [vehicles[id] EXCEPT !.latitude = lat.v,
                                                 !.longitude = lng.v,
                                                 !.heading = safeHeading(heading),
                                                 !.speed = safeSpeed(speed),
                                                 !.lastUpdate = now]
            IN [ok |-> TRUE, tbl |-> [vehicles EXCEPT ![id] = updated], row |-> updated]
       ELSE [ok |-> FALSE, tbl |-> vehicles, row |-> Null]

\* socket.on("position:update")
PositionUpdate(s, vehicleId, latitude, longitude, heading, speed) ==
  /\ sockets[s].status = "open"
  /\ IF \/ ~IsNumberType(latitude) \/ ~IsNumberType(longitude)
        \/ IsNaN(latitude) \/ IsNaN(longitude)
     THEN /\ vehicles' = vehicles
          /\ emitted' = << >>
     ELSE LET vehicle == updateVehiclePosition(vehicleId, latitude, longitude, heading, speed)
          IN /\ vehicles' = vehicle.tbl
             /\ emitted' = IF vehicle.ok THEN << ioEmit("vehicle:updated", vehicle.row) >>
                           ELSE << >>
  /\ req' = [op |-> "position:update", socket |-> s, vehicleId |-> vehicleId,
             latitude |-> latitude, longitude |-> longitude,
             heading |-> heading, speed |-> speed]
  /\ UNCHANGED <<alerts, mission, messages, connectionLogs, routeChanges,
                 server, now, res, client,
                 waypoints>>

\* socket.on("stealth:toggle")
StealthToggle(s, vehicleId, isStealthMode) ==
  /\ sockets[s].status = "open"
  /\ LET vehicle == updateVehicleStealthMode(vehicleId, isStealthMode)
     IN /\ vehicles' = vehicle.tbl
        /\ emitted' = IF vehicle.ok THEN << ioEmit("vehicle:updated", vehicle.row) >>
                      ELSE << >>
  /\ req' = [op |-> "stealth:toggle", socket |-> s, vehicleId |-> vehicleId,
             isStealthMode |-> isStealthMode]
  /\ UNCHANGED <<alerts, mission, messages, connectionLogs, routeChanges,
                 server, now, res, client,
                 waypoints>>

\* the vehicles whose telemetry the modelled clients send ("PC" has no row),
\* and the headings and speeds they send
TelemetryIds == {"CONVOY_1", "PC"}
Headings == {Undefined, NaN, Num(-10), Num(0), Num(90), Num(360), Num(370)}
Speeds == {Undefined, Infinity, Num(-5), Num(0), Num(12)}

NextTelemetry ==
  \/ \E s \in SocketIds : Connect(s)
  \/ \E s \in SocketIds, id \in TelemetryIds, h \in Headings, v \in Speeds :
       PositionUpdate(s, id, Num(17421799), Num(-4180000), h, v)
  \/ \E s \in SocketIds, id \in TelemetryIds, h \in Headings :
       PositionUpdate(s, id, NaN, Num(-4180000), h, Num(12))
  \/ \E s \in SocketIds, id \in TelemetryIds, b \in BOOLEAN : StealthToggle(s, id, b)

SpecTelemetry == Init /\ [][NextTelemetry]_vars

\* position updates with well-formed and malformed coordinates
Latitudes == {Num(17421799), NaN, Infinity, NegInfinity, NotANumber}
Longitudes == {Num(-4180000), NaN, Infinity, NegInfinity, NotANumber}

NextReject ==
  \/ Tick
  \/ \E s \in SocketIds : Connect(s)
  \/ \E s \in SocketIds, id \in TelemetryIds, lat \in Latitudes, lng \in Longitudes :
       PositionUpdate(s, id, lat, lng, Num(90), Num(12))

SpecReject == Init /\ [][NextReject]_vars

\* every handler that writes the vehicles table, for a role that has a row
\* and for the command post, which has none
FleetIds == {"CONVOY_1", "PC"}

NextFleet ==
  \/ \E s \in SocketIds : Connect(s)
  \/ \E s \in SocketIds, id \in FleetIds : Join(s, id)
  \/ \E s \in SocketIds : Disconnect(s)
  \/ \E s \in SocketIds, id \in FleetIds :
       PositionUpdate(s, id, Num(17421799), Num(-4180000), Num(90), Num(12))
  \/ \E s \in SocketIds, id \in FleetIds, b \in BOOLEAN : StealthToggle(s, id, b)

SpecFleet == Init /\ [][NextFleet]_vars

(* ------------------ TacticalMap: distance and visibility ------------- *)
\* Coordinates are microdegrees, angles are units of 1e-7 rad, cosines are
\* scaled by 1e4, distances are decimetres.  Math.sin, Math.cos and
\* Math.atan2 are evaluated by their Taylor polynomials, accurate to 2 m for
\* distances up to 50 km.  The columns are float4: a stored coordinate is
\* rounded by at most 2e-6 degree (0.2 m), below that accuracy.
Abs(x) == IF x < 0 THEN -x ELSE x

Sign(x) == IF x < 0 THEN -1 ELSE 1

\* x * num / den without leaving 32 bits
MulDiv(x, num, den) == (x \div den) * num + ((x % den) * num) \div den

\* toRad: deg * (Math.PI / 180)
toRad(deg) == Sign(deg) * MulDiv(Abs(deg), 17453, 100000)

\* Math.sin
Sin(x) ==
  LET a == Abs(x)
      cube == (((a * a) \div 10000000) * a) \div 10000000
  IN Sign(x) * (a - cube \div 6)

\* Math.cos
Cos(x) ==
  LET y == Abs(x) \div 1000
      t == (y * y) \div 10000
  IN 10000 - t \div 2 + ((t * t) \div 10000) \div 24

RECURSIVE SqrtBetween(_, _, _)
SqrtBetween(n, lo, hi) ==
  IF lo >= hi THEN lo
  ELSE LET mid == (lo + hi + 1) \div 2
       IN IF mid * mid <= n THEN SqrtBetween(n, mid, hi)
          ELSE SqrtBetween(n, lo, mid - 1)

\* Math.sqrt, rounded down; 46340 is the largest root of a 32-bit square
Sqrt(n) == SqrtBetween(n, 0, 46340)

\* Math.atan2(y, x) for 0 <= y in 1e-7 units and x scaled by 1e7
Atan2(y, x) ==
  LET t == y + (y * (10000000 - x)) \div x
      cube == (((t * t) \div 10000000) * t) \div 10000000
  IN t - cube \div 3

Half(x) == Sign(x) * (Abs(x) \div 2)

\* calculateDistance with the longitude term not scaled by the cosines
calculateDistanceFlat(lat1, lon1, lat2, lon2) ==
  LET sLat == Sin(Half(toRad(lat2 - lat1)))
      sLon == Sin(Half(toRad(lon2 - lon1)))
      a == sLat * sLat + sLon * sLon
      c == 2 * Atan2(Sqrt(a), 10000000 - a \div 20000000)
  IN MulDiv(c, 6371, 1000)

\* calculateDistance: haversine, R = 6371 km
calculateDistance(lat1, lon1, lat2, lon2) ==
  LET dLat == toRad(lat2 - lat1)
      dLon == toRad(lon2 - lon1)
      sLat == Sin(Half(dLat))
      sLon == Sin(Half(dLon))
      a == sLat * sLat
           + MulDiv(MulDiv(sLon * sLon, Cos(toRad(lat1)), 10000),
                    Cos(toRad(lat2)), 10000)
      c == 2 * Atan2(Sqrt(a), 10000000 - a \div 20000000)
  IN MulDiv(c, 6371, 1000)

\* the 0.3 km of the filters, in decimetres
VisibilityRadius == 3000

\* RoleProvider with the aircraft not counted
canSeeFullMapPCOnly(role) == role = "PC"

\* RoleProvider: isPC || isAircraft
canSeeFullMap(role) == role = "PC" \/ role = "A400M"

\* vehicles.find(v => v.type === currentRole): << >> is undefined
currentVehicle(role, vs) ==
  IF \E id \in DOMAIN vs : vs[id].type = role
  THEN << vs[CHOOSE id \in DOMAIN vs : vs[id].type = role] >>
  ELSE << >>

\* Dashboard passes replayPositions only in replay mode; TacticalMap's
\* isReplayMode is replayPositions && replayPositions.size > 0
mapIsReplayMode(replayMode, size) == replayMode /\ size > 0

\* the body of both filters, for an entity at (latitude, longitude)
isVisible(replay, role, vs, latitude, longitude) ==
  IF replay THEN TRUE
  ELSE IF canSeeFullMap(role) THEN TRUE
  ELSE IF currentVehicle(role, vs) = << >> THEN TRUE
  ELSE calculateDistance(currentVehicle(role, vs)[1].latitude,
                         currentVehicle(role, vs)[1].longitude,
                         latitude, longitude) <= VisibilityRadius

\* vehicles.filter(...): the ids of the vehicles drawn
visibleVehicles(replay, role, vs) ==
  {id \in DOMAIN vs : isVisible(replay, role, vs, vs[id].latitude, vs[id].longitude)}

\* alerts.filter(...): the indexes of the alerts drawn
visibleAlerts(replay, role, vs, as) ==
  {i \in DOMAIN as : isVisible(replay, role, vs, as[i].latitude, as[i].longitude)}

(* ------------------------ client: role and replay -------------------- *)
\* RoleSelector: setCurrentRole(role); Dashboard mounts with its initial state
SelectRole(role) ==
  /\ currentRole = Null
  /\ currentRole' = role
  /\ isReplayMode' = FALSE
  /\ replayPositions' = 0
  /\ UNCHANGED <<store, server, now, req, emitted, res,
                 clientAlerts>>

\* Dashboard handleLogout / handleEmergencyWipe: Dashboard unmounts
Logout ==
  /\ currentRole # Null
  /\ currentRole' = Null
  /\ isReplayMode' = FALSE
  /\ replayPositions' = 0
  /\ UNCHANGED <<store, server, now, req, emitted, res,
                 clientAlerts>>

\* Dashboard: the replay tab, rendered for PC only
StartReplay ==
  /\ currentRole = "PC"
  /\ isReplayMode' = TRUE
  /\ UNCHANGED <<store, server, now, req, emitted, res, currentRole, replayPositions,
                 clientAlerts>>

\* MissionReplay, rendered in the replay tab for a COMPLETED mission:
\* onPositionUpdate(positions), one entry per vehicle with recorded history
ReplayPositionUpdate(size) ==
  /\ currentRole = "PC"
  /\ isReplayMode
  /\ mission # << >> /\ mission[1].status = "COMPLETED"
  /\ replayPositions' = size
  /\ UNCHANGED <<store, server, now, req, emitted, res, currentRole, isReplayMode,
                 clientAlerts>>

\* MissionReplay onClose
CloseReplay ==
  /\ currentRole = "PC"
  /\ isReplayMode
  /\ mission # << >> /\ mission[1].status = "COMPLETED"
  /\ isReplayMode' = FALSE
  /\ replayPositions' = 0
  /\ UNCHANGED <<store, server, now, req, emitted, res, currentRole,
                 clientAlerts>>

\* what the running client draws
VisibleVehicles ==
  visibleVehicles(mapIsReplayMode(isReplayMode, replayPositions), currentRole, vehicles)

VisibleAlerts ==
  visibleAlerts(mapIsReplayMode(isReplayMode, replayPositions), currentRole,
                vehicles, alerts)

\* fixes sent in the map scenarios: CONVOY_1's start, 200 m and 310 m north
\* of it and 290 m east of it
Fixes ==
  { <<17420000, -4180000>>, <<17421799, -4180000>>,
    <<17422788, -4180000>>, <<17420000, -4177267>> }

Movers == {"CONVOY_1", "CONVOY_2"}

ReplaySizes == {0, 1}

NextMap ==
  \/ Connect(1)
  \/ \E id \in Movers, f \in Fixes :
       PositionUpdate(1, id, Num(f[1]), Num(f[2]), Undefined, Undefined)
  \/ \E f \in Fixes : AlertCreate(1, "OBSTACLE", f[1], f[2], Null, "CONVOY_1")
  \/ GetCurrentMission
  \/ MissionComplete
  \/ \E role \in Roles : SelectRole(role)
  \/ Logout
  \/ StartReplay
  \/ \E size \in ReplaySizes : ReplayPositionUpdate(size)
  \/ CloseReplay

SpecMap == Init /\ [][NextMap]_vars

(* ------------------- joined clients and their intents ---------------- *)
\* the roles joined, the vehicle whose position or stealth flag the intents
\* name, and where they put it: 200 m and 310 m north of CONVOY_1's start
SessionRoles == {"CONVOY_1", "PC"}
SessionFixes == { <<17421799, -4180000>>, <<17422788, -4180000>> }

NextSession ==
  \/ \E s \in SocketIds : Connect(s)
  \/ \E s \in SocketIds, role \in SessionRoles : Join(s, role)
  \/ \E s \in SocketIds, f \in SessionFixes :
       PositionUpdate(s, "CONVOY_2", Num(f[1]), Num(f[2]), Undefined, Undefined)
  \/ \E s \in SocketIds, b \in BOOLEAN : StealthToggle(s, "CONVOY_2", b)
  \/ \E s \in SocketIds : AlertCreate(s, "OBSTACLE", 17422788, -4180000, Null, "CONVOY_1")

SpecSession == Init /\ [][NextSession]_vars

\* joins into a store that holds alerts, messages and a mission
NextSnapshot ==
  \/ \E s \in SocketIds : Connect(s)
  \/ \E s \in SocketIds, role \in SessionRoles : Join(s, role)
  \/ \E s \in SocketIds : AlertCreate(s, "OBSTACLE", 17422788, -4180000, Null, "CONVOY_1")
  \/ \E s \in SocketIds : MessageSend(s, "msg", Null)
  \/ GetCurrentMission

SpecSnapshot == Init /\ [][NextSnapshot]_vars

(* ============================== claims ============================== *)

(* ------------------------------ waypoints ---------------------------- *)
\* storage.getWaypoints(missionId): missionId is Null when undefined; the
\* orderings ORDER BY order_index ASC may return
getWaypoints(missionId) ==
  LET rows == SelectSeq(waypoints, LAMBDA w : missionId = Null \/ w.missionId = missionId)
      n == Len(rows)
  IN {[i \in 1..n |-> desc[n + 1 - i]] : desc \in OrderByDesc(rows, "orderIndex")}

\* storage.createWaypoint: the row inserted; randomUUID gives an id that no
\* row has
createWaypoint(missionId, orderIndex) ==
  [id |-> CHOOSE n \in 1..(Len(waypoints) + 1) :
            /\ \A i \in 1..Len(waypoints) : waypoints[i].id # n
            /\ \A m \in 1..(n - 1) : \E i \in 1..Len(waypoints) : waypoints[i].id = m,
   missionId |-> missionId, orderIndex |-> orderIndex]

\* storage.updateWaypoint: updates is the request body, a record of the
\* columns to set
updateWaypoint(id, updates) ==
  LET hit == {i \in 1..Len(waypoints) : waypoints[i].id = id}
      set(row) == [f \in DOMAIN row |-> IF f \in DOMAIN updates THEN updates[f] ELSE row[f]]
  IN IF hit # {}
     THEN LET i == CHOOSE k \in hit : TRUE
          IN [ok |-> TRUE, tbl |-> [waypoints EXCEPT ![i] = set(waypoints[i])],
              row |-> set(waypoints[i])]
     ELSE [ok |-> FALSE, tbl |-> waypoints, row |-> Null]

\* storage.deleteWaypoint
deleteWaypoint(id) == SelectSeq(waypoints, LAMBDA w : w.id # id)

\* app.post("/api/waypoints"); given is << >> when the body has no
\* orderIndex, <<n>> when it has orderIndex n
WaypointCreate(given) ==
  /\ Len(waypoints) < MaxWaypoints
  /\ LET missionId == IF getCurrentMission # << >> THEN getCurrentMission[1].id ELSE Null
     IN \E existingWaypoints \in getWaypoints(missionId) :
          LET orderIndex == IF given # << >> THEN given[1] ELSE Len(existingWaypoints)
              waypoint == createWaypoint(missionId, orderIndex)
          IN /\ waypoints' = Append(waypoints, waypoint)
             /\ emitted' = << ioEmit("waypoint:created", waypoint) >>
             /\ res' = [status |-> 200, body |-> waypoint]
  /\ req' = [op |-> "POST /api/waypoints", orderIndex |-> given]
  /\ UNCHANGED <<vehicles, alerts, mission, messages, connectionLogs, routeChanges,
                 server, now, client>>

\* app.patch("/api/waypoints/:id")
WaypointUpdate(id, updates) ==
  /\ IF DOMAIN updates = {}
     THEN /\ res' = [status |-> 400, body |-> "No update data provided"]
          /\ emitted' = << >>
          /\ UNCHANGED waypoints
     ELSE LET waypoint == updateWaypoint(id, updates)
          IN /\ waypoints' = waypoint.tbl
             /\ emitted' = IF waypoint.ok THEN << ioEmit("waypoint:updated", waypoint.row) >>
                           ELSE << >>
             /\ res' = IF waypoint.ok THEN [status |-> 200, body |-> waypoint.row]
                       ELSE [status |-> 404, body |-> "Waypoint not found"]
  /\ req' = [op |-> "PATCH /api/waypoints/:id", id |-> id, updates |-> updates]
  /\ UNCHANGED <<vehicles, alerts, mission, messages, connectionLogs, routeChanges,
                 server, now, client>>

\* app.delete("/api/waypoints/:id")
WaypointDelete(id) ==
  /\ waypoints' = deleteWaypoint(id)
  /\ emitted' = << ioEmit("waypoint:deleted", [id |-> id]) >>
  /\ res' = [status |-> 200, body |-> "success"]
  /\ req' = [op |-> "DELETE /api/waypoints/:id", id |-> id]
  /\ UNCHANGED <<vehicles, alerts, mission, messages, connectionLogs, routeChanges,
                 server, now, client>>

\* the ids a request may name (one of them never exists) and the bodies of
\* the update requests
WaypointIdInputs == 1..(MaxWaypoints + 1)
WaypointUpdates == {<< >>} \cup {[orderIndex |-> n] : n \in 0..(MaxWaypoints - 1)}

NextWaypoint ==
  \/ GetCurrentMission
  \/ WaypointCreate(<< >>)
  \/ \E id \in WaypointIdInputs, updates \in WaypointUpdates : WaypointUpdate(id, updates)
  \/ \E id \in WaypointIdInputs : WaypointDelete(id)

SpecWaypoint == Init /\ [][NextWaypoint]_vars

(* ------------- handlers interleaved at their awaits ------------------ *)
\* useWebSocket: what the alerts state becomes on one event
onAlertEvent(list, event, payload) ==
  CASE event = "alerts:sync" -> payload
    [] event = "alert:created" -> Append(list, payload)
    [] event = "alert:updated" ->
         [i \in 1..Len(list) |-> IF list[i].id = payload.id THEN payload ELSE list[i]]
    [] OTHER -> list

\* the alerts state of the client of socket s after the emissions em, which
\* reach it in the order they were emitted
RECURSIVE receiveAll(_, _, _)
receiveAll(list, em, s) ==
  IF em = << >> THEN list
  ELSE receiveAll(IF s \in Head(em).to
                  THEN onAlertEvent(list, Head(em).event, Head(em).payload)
                  ELSE list,
                  Tail(em), s)

\* socket.emit on a socket that may have gone: nothing leaves a closed socket
socketEmitIfOpen(s, event, payload) ==
  [to |-> {s} \cap OpenSockets, event |-> event, payload |-> payload]

RemoveAt(seq, i) == SubSeq(seq, 1, i - 1) \o SubSeq(seq, i + 1, Len(seq))

\* join, routes.ts:36-59: the registry, the vehicle row, the connection log,
\* then the reads of vehicles and alerts; the handler then waits for the
\* reads of messages and mission
JoinBegin(s, vehicleId) ==
  /\ sockets[s].status = "open"
  /\ Len(pending) < MaxPending
  /\ LET conn == updateVehicleConnection(vehicleId, TRUE)
         vehiclesAfter == IF vehicleId # "PC" THEN conn.tbl ELSE vehicles
         vehicle == getVehicle(vehiclesAfter, vehicleId)
         logged == vehicleId # "PC" /\ vehicle.ok
     IN /\ logged => Len(connectionLogs) < MaxLogs
        /\ sockets' = [sockets EXCEPT ![s].vehicleId = vehicleId]
        /\ connectedClients' =
             [r \in DOMAIN connectedClients \cup {vehicleId} |->
                IF r = vehicleId THEN s ELSE connectedClients[r]]
        /\ vehicles' = vehiclesAfter
        /\ connectionLogs' =
             IF logged
             THEN insertConnectionLog(
                         createConnectionLog(vehicleId, "CONNECTED",
                                             vehicle.row.latitude, vehicle.row.longitude))
             ELSE connectionLogs
        /\ \E al \in getAlerts :
             pending' = Append(pending,
                               [op |-> "join", socket |-> s, vehicleId |-> vehicleId,
                                step |-> "sync", vehicles |-> getVehicles(vehiclesAfter),
                                alerts |-> al])
  /\ req' = [op |-> "join", socket |-> s, vehicleId |-> vehicleId]
  /\ emitted' = << >>
  /\ UNCHANGED <<alerts, mission, messages, routeChanges, waypoints, now, res, client>>

\* join, routes.ts:60-65 and, without a mission, 79: the reads of messages
\* and mission, the three syncs to the joining socket; with a mission the
\* handler then waits for calculateRoute
JoinSync(i) ==
  /\ i \in 1..Len(pending)
  /\ pending[i].op = "join"
  /\ pending[i].step = "sync"
  /\ LET p == pending[i]
     IN /\ \E ms \in getMessages :
             emitted' =
               << socketEmitIfOpen(p.socket, "vehicles:sync", p.vehicles),
                  socketEmitIfOpen(p.socket, "alerts:sync", p.alerts),
                  socketEmitIfOpen(p.socket, "messages:sync", ms) >>
               \o (IF getCurrentMission = << >>
                   THEN << ioEmit("vehicles:sync", p.vehicles) >>
                   ELSE << >>)
        /\ pending' = IF getCurrentMission = << >>
                      THEN RemoveAt(pending, i)
                      ELSE [pending EXCEPT ![i].step = "route"]
        /\ req' = [op |-> "join", socket |-> p.socket, vehicleId |-> p.vehicleId]
  /\ clientAlerts' = [s \in SocketIds |-> receiveAll(clientAlerts[s], emitted', s)]
  /\ UNCHANGED <<store, connectedClients, sockets, now, res,
                 currentRole, isReplayMode, replayPositions>>

\* join, routes.ts:68-79: calculateRoute has answered; the route to the
\* joining socket, then the vehicles read at line 58 to every socket
JoinRoute(i) ==
  /\ i \in 1..Len(pending)
  /\ pending[i].op = "join"
  /\ pending[i].step = "route"
  /\ getCurrentMission # << >>
  /\ LET p == pending[i]
     IN /\ \E provided \in ProvidedRoutes :
             emitted' =
               << socketEmitIfOpen(p.socket, "route:updated",
                                   calculateRoute(getCurrentMission[1], provided)),
                  ioEmit("vehicles:sync", p.vehicles) >>
        /\ req' = [op |-> "join", socket |-> p.socket, vehicleId |-> p.vehicleId]
  /\ pending' = RemoveAt(pending, i)
  /\ UNCHANGED <<store, connectedClients, sockets, now, res, client>>

\* alert:create, routes.ts:123-135: with an image the handler calls the
\* classification service and waits for it; without one it goes on to
\* createAlert and io.emit (182-193)
AlertCreateBegin(s, type, latitude, longitude, imageUrl, sourceVehicleId) ==
  /\ sockets[s].status = "open"
  /\ IF imageUrl # Null
     THEN /\ Len(pending) < MaxPending
          /\ pending' = Append(pending,
                               [op |-> "alert:create", socket |-> s, type |-> type,
                                latitude |-> latitude, longitude |-> longitude,
                                imageUrl |-> imageUrl,
                                sourceVehicleId |-> sourceVehicleId])
          /\ emitted' = << >>
          /\ UNCHANGED alerts
     ELSE /\ Len(alerts) < MaxAlerts
          /\ LET alert == createAlert(type, latitude, longitude, sourceVehicleId,
                                      imageUrl, analyzeImage(imageUrl, Null))
             IN /\ alerts' = Append(alerts, alert)
                /\ emitted' = << ioEmit("alert:created", alert) >>
          /\ UNCHANGED pending
  /\ req' = [op |-> "alert:create", socket |-> s, latitude |-> latitude,
             longitude |-> longitude, imageUrl |-> imageUrl,
             sourceVehicleId |-> sourceVehicleId,
             answer |-> IF imageUrl # Null THEN "waiting" ELSE "none"]
  /\ clientAlerts' = [c \in SocketIds |-> receiveAll(clientAlerts[c], emitted', c)]
  /\ UNCHANGED <<vehicles, mission, messages, connectionLogs, routeChanges, waypoints,
                 connectedClients, sockets, now, res,
                 currentRole, isReplayMode, replayPositions>>

\* alert:create, routes.ts:136-193: the service has answered or failed;
\* createAlert with the analysis, then io.emit("alert:created")
AlertCreateStore(i, answer) ==
  /\ i \in 1..Len(pending)
  /\ pending[i].op = "alert:create"
  /\ Len(alerts) < MaxAlerts
  /\ LET p == pending[i]
         alert == createAlert(p.type, p.latitude, p.longitude, p.sourceVehicleId,
                              p.imageUrl, analyzeImage(p.imageUrl, answer))
     IN /\ alerts' = Append(alerts, alert)
        /\ emitted' = << ioEmit("alert:created", alert) >>
        /\ req' = [op |-> "alert:create", socket |-> p.socket, latitude |-> p.latitude,
                   longitude |-> p.longitude, imageUrl |-> p.imageUrl,
                   sourceVehicleId |-> p.sourceVehicleId, answer |-> answer]
  /\ pending' = RemoveAt(pending, i)
  /\ clientAlerts' = [c \in SocketIds |-> receiveAll(clientAlerts[c], emitted', c)]
  /\ UNCHANGED <<vehicles, mission, messages, connectionLogs, routeChanges, waypoints,
                 connectedClients, sockets, now, res,
                 currentRole, isReplayMode, replayPositions>>

\* the roles the interleaved clients join as
AsyncIds == {"CONVOY_1", "PC"}

NextAsync ==
  \/ \E s \in SocketIds : Connect(s)
  \/ \E s \in SocketIds, id \in AsyncIds : JoinBegin(s, id)
  \/ \E i \in 1..MaxPending : JoinSync(i)
  \/ \E i \in 1..MaxPending : JoinRoute(i)
  \/ \E s \in SocketIds : Disconnect(s)
  \/ GetCurrentMission
  \/ \E s \in SocketIds, img \in Images :
       AlertCreateBegin(s, "OBSTACLE", 17421799, -4180000, img, "CONVOY_1")
  \/ \E i \in 1..MaxPending, answer \in AiAnswers : AlertCreateStore(i, answer)

SpecAsync == Init /\ [][NextAsync]_vars

\* C1: an alert that has left PENDING is never changed again: no later
\* alert:validate or alert:dismiss changes its status, its validator or its
\* validation time (so no VALIDATED -> DISMISSED, DISMISSED -> VALIDATED or
\* return to PENDING).
C1_AlertOneWay ==
  [][\A i \in 1..Len(alerts) :
       alerts[i].status # "PENDING" =>
         /\ alerts'[i].status = alerts[i].status
         /\ alerts'[i].validatedBy = alerts[i].validatedBy
         /\ alerts'[i].validatedAt = alerts[i].validatedAt]_vars

\* C2: no complete-mission request takes a mission out of BRIEFING: from
\* BRIEFING the status never becomes COMPLETED in one step, so a COMPLETED
\* mission was IN_PROGRESS before.
C2_CompleteNeedsStart ==
  [][(mission # << >> /\ mission[1].status = "BRIEFING")
       => mission'[1].status # "COMPLETED"]_vars

\* C3: once the mission has left BRIEFING, no request moves its status
\* backward or changes startedAt: IN_PROGRESS is followed by IN_PROGRESS,
\* COMPLETED or ABORTED only, and COMPLETED and ABORTED are terminal.
C3_StartOnlyFromBriefing ==
  [][(mission # << >> /\ mission[1].status # "BRIEFING") =>
       /\ mission'[1].startedAt = mission[1].startedAt
       /\ mission'[1].status # "BRIEFING"
       /\ mission[1].status \in {"COMPLETED", "ABORTED"}
            => mission'[1].status = mission[1].status]_vars

\* C4: the CONNECTED records of a role never follow one another without a
\* DISCONNECTED record of that role between them: a second join with no
\* leave in between appends no second CONNECTED record.
C4_JoinAppendsOnce ==
  \A i, j \in 1..Len(connectionLogs) :
    ( /\ i < j
      /\ connectionLogs[i].vehicleId = connectionLogs[j].vehicleId
      /\ connectionLogs[i].eventType = "CONNECTED"
      /\ connectionLogs[j].eventType = "CONNECTED" )
    => \E k \in (i + 1)..(j - 1) :
         /\ connectionLogs[k].vehicleId = connectionLogs[i].vehicleId
         /\ connectionLogs[k].eventType = "DISCONNECTED"

\* C5: after a message:send, message:received has been emitted to exactly
\* the connection registered under the target role (to none when the role
\* has no registered connection), and to every connection when the target
\* is null; what is emitted is the message just stored.
C5_TargetedDelivery ==
  req.op = "message:send" =>
    /\ Recipients("message:received") =
         ( IF req.targetVehicleId = Null THEN OpenSockets
           ELSE {connectedClients[r] : r \in DOMAIN connectedClients \cap {req.targetVehicleId}} )
    /\ \A i \in 1..Len(emitted) :
         /\ emitted[i].event = "message:received"
         /\ emitted[i].payload = messages[Len(messages)]
         /\ emitted[i].payload.targetVehicleId = req.targetVehicleId

\* C5 witness: a targeted message reached the one registered connection
\* while another connection was open and received nothing.
C5_Witness ==
  /\ req.op = "message:send"
  /\ req.targetVehicleId # Null
  /\ req.targetVehicleId \in DOMAIN connectedClients
  /\ Recipients("message:received") = {connectedClients[req.targetVehicleId]}
  /\ OpenSockets \ Recipients("message:received") # {}


C7_RadiusFilter ==
  LET near == { {<<17420000, -4180000>>, <<17421799, -4180000>>},
                {<<17420000, -4180000>>, <<17420000, -4177267>>},
                {<<17421799, -4180000>>, <<17422788, -4180000>>} }
      at(e) == <<e.latitude, e.longitude>>
      within300m(p, q) == p = q \/ {p, q} \in near
  IN ( /\ currentRole \in Roles \ {"PC", "A400M"}
       /\ \E id \in DOMAIN vehicles : vehicles[id].type = currentRole ) =>
       LET own == vehicles[CHOOSE id \in DOMAIN vehicles : vehicles[id].type = currentRole]
       IN /\ VisibleVehicles =
               {id \in DOMAIN vehicles : within300m(at(own), at(vehicles[id]))}
          /\ VisibleAlerts =
               {i \in DOMAIN alerts : within300m(at(own), at(alerts[i]))}

\* C7 witness: CONVOY_1 at its start draws itself and CONVOY_2, which is
\* 290 m east of it, and does not draw the alert 310 m north of it.
C7_Witness ==
  /\ currentRole = "CONVOY_1"
  /\ vehicles["CONVOY_1"].latitude = 17420000
  /\ vehicles["CONVOY_1"].longitude = -4180000
  /\ vehicles["CONVOY_2"].latitude = 17420000
  /\ vehicles["CONVOY_2"].longitude = -4177267
  /\ Len(alerts) = 1
  /\ alerts[1].latitude = 17422788
  /\ VisibleVehicles = {"CONVOY_1", "CONVOY_2"}
  /\ VisibleAlerts = {}

\* C8: under the roles PC and A400M every vehicle and every alert is drawn,
\* wherever they are and whether or not a replay runs; under CONVOY_1, which
\* is more than 300 m from RECO in every scenario position, RECO is not drawn.
C8_Omniscient ==
  /\ \A role \in {"PC", "A400M"}, replay \in BOOLEAN :
       /\ visibleVehicles(replay, role, vehicles) = DOMAIN vehicles
       /\ visibleAlerts(replay, role, vehicles, alerts) = DOMAIN alerts
  /\ currentRole \in {"PC", "A400M"} =>
       /\ VisibleVehicles = DOMAIN vehicles
       /\ VisibleAlerts = DOMAIN alerts
  /\ "RECO" \notin visibleVehicles(FALSE, "CONVOY_1", vehicles)
  /\ currentRole = "CONVOY_1" => "RECO" \notin VisibleVehicles

\* C8 witness: the client of A400M, 45 km from the convoy, draws all six
\* vehicles and the alert after CONVOY_2 has moved next to CONVOY_1.
C8_Witness ==
  /\ currentRole = "A400M"
  /\ vehicles["CONVOY_2"].latitude = 17421799
  /\ Len(alerts) = 1
  /\ VisibleVehicles = VehicleIds
  /\ VisibleAlerts = {1}

C10_SpeedClamped ==
  /\ \A id \in DOMAIN vehicles : vehicles[id].speed >= 0
  /\ (req.op = "position:update" /\ emitted # << >> /\ req.speed.k = "num") =>
       vehicles[req.vehicleId].speed =
         ( IF req.speed.v < 0 THEN 0 ELSE req.speed.v )

\* C10 witness: an accepted position update with speed -5 stored 0.
C10_Witness ==
  /\ req.op = "position:update"
  /\ emitted # << >>
  /\ req.speed = Num(-5)
  /\ vehicles[req.vehicleId].speed = 0

\* C11: after an alert:create that carried an image while the
\* classification service failed, the alert table ends with exactly one new
\* alert, PENDING, with the image and with no analysis, and alert:created
\* with that alert has been broadcast to every connection.
C11_AlertSurvivesAdapterFailure ==
  (req.op = "alert:create" /\ req.imageUrl # Null /\ req.answer = "error") =>
    /\ Len(alerts) >= 1
    /\ alerts[Len(alerts)].status = "PENDING"
    /\ alerts[Len(alerts)].aiAnalysis = Null
    /\ alerts[Len(alerts)].imageUrl = req.imageUrl
    /\ alerts[Len(alerts)].validatedAt = NoTime
    /\ Cardinality({i \in 1..Len(alerts) : alerts[i].id = alerts[Len(alerts)].id}) = 1
    /\ emitted = << [to |-> OpenSockets, event |-> "alert:created",
                     payload |-> alerts[Len(alerts)]] >>

\* C11 witness: an alert with an image was created while the service failed.
C11_Witness ==
  /\ req.op = "alert:create"
  /\ req.imageUrl = "data:image"
  /\ req.answer = "error"
  /\ Len(alerts) = 1
  /\ alerts[1].status = "PENDING"
  /\ alerts[1].aiAnalysis = Null
  /\ Len(emitted) = 1

\* C12: a vehicle:updated, alert:created or alert:updated event is emitted
\* to the connection of a role other than PC and A400M only if the entity it
\* carries lies within 300 m of that role's own vehicle.
C12_FanoutFiltered ==
  \A i \in 1..Len(emitted) :
    emitted[i].event \in {"vehicle:updated", "alert:created", "alert:updated"} =>
      \A s \in emitted[i].to :
        ( /\ sockets[s].vehicleId \in Roles \ {"PC", "A400M"}
          /\ sockets[s].vehicleId \in DOMAIN vehicles ) =>
          calculateDistance(vehicles[sockets[s].vehicleId].latitude,
                            vehicles[sockets[s].vehicleId].longitude,
                            emitted[i].payload.latitude,
                            emitted[i].payload.longitude) <= VisibilityRadius

\* C13: a step changes the position or the stealth flag of a vehicle only
\* when it runs for an intent of the connection joined as that vehicle.
C13_OwnerOnly ==
  [][\A id \in DOMAIN vehicles :
       ( \/ vehicles'[id].latitude # vehicles[id].latitude
         \/ vehicles'[id].longitude # vehicles[id].longitude
         \/ vehicles'[id].isStealthMode # vehicles[id].isStealthMode )
       => /\ req'.op \in {"position:update", "stealth:toggle"}
          /\ sockets[req'.socket].vehicleId = id]_vars

\* C14: a step changes the status of an alert only when it runs for an
\* alert:validate or alert:dismiss of a connection joined as PC that names PC
\* as validator; any other such intent leaves the alert PENDING.
C14_CommandOnly ==
  [][\A i \in 1..Len(alerts) :
       alerts'[i].status # alerts[i].status =>
         /\ req'.op \in {"alert:validate", "alert:dismiss"}
         /\ sockets[req'.socket].vehicleId = "PC"
         /\ req'.validatedBy = "PC"]_vars

\* C15: a position:update whose latitude or longitude is not a finite
\* number changes no vehicle row (position, heading, speed and last-update
\* time stay as they were) and emits nothing; and the server keeps serving:
\* a later position:update with finite coordinates for a known vehicle is
\* stored and broadcast.
C15_RejectNonFinite ==
  /\ []( ( /\ req.op = "position:update"
           /\ (req.latitude.k # "num" \/ req.longitude.k # "num") )
         => emitted = << >> )
  /\ [][ /\ ( /\ req'.op = "position:update"
              /\ (req'.latitude.k # "num" \/ req'.longitude.k # "num") )
            => vehicles' = vehicles
         /\ ( /\ req'.op = "position:update"
              /\ req'.latitude.k = "num" /\ req'.longitude.k = "num"
              /\ req'.vehicleId \in DOMAIN vehicles )
            => /\ vehicles'[req'.vehicleId].latitude = req'.latitude.v
               /\ vehicles'[req'.vehicleId].longitude = req'.longitude.v
               /\ Len(emitted') = 1
               /\ emitted'[1].event = "vehicle:updated" ]_vars

\* C15 witness: after time has passed, a position:update for CONVOY_1 with
\* an infinite latitude left the row as it was at start-up and emitted nothing.
C15_Witness ==
  /\ req.op = "position:update"
  /\ req.vehicleId = "CONVOY_1"
  /\ req.latitude = Infinity
  /\ req.longitude = Num(-4180000)
  /\ now > BootTime
  /\ vehicles["CONVOY_1"].latitude = 17420000
  /\ vehicles["CONVOY_1"].heading = 0
  /\ vehicles["CONVOY_1"].speed = 0
  /\ vehicles["CONVOY_1"].lastUpdate = BootTime
  /\ emitted = << >>

\* C16: after the disconnect of a connection joined as a role, the role has
\* no registered connection and its vehicle, if any, is marked disconnected;
\* and for every role the ConnectionLog records of the role strictly
\* alternate: the first is CONNECTED and each next one differs in event type
\* from the one before it.
C16_StrictAlternation ==
  /\ (req.op = "disconnect" /\ sockets[req.socket].vehicleId # Null) =>
       /\ sockets[req.socket].vehicleId \notin DOMAIN connectedClients
       /\ sockets[req.socket].vehicleId \in DOMAIN vehicles =>
            ~vehicles[sockets[req.socket].vehicleId].isConnected
  /\ \A j \in 1..Len(connectionLogs) :
       LET earlier == {i \in 1..(j - 1) :
                         connectionLogs[i].vehicleId = connectionLogs[j].vehicleId}
       IN IF earlier = {}
          THEN connectionLogs[j].eventType = "CONNECTED"
          ELSE LET last == CHOOSE i \in earlier : \A k \in earlier : k <= i
               IN connectionLogs[j].eventType # connectionLogs[last].eventType

\* C17: right after a join as role R the registry maps R to the joining
\* connection, and the joining connection keeps the slot from then on: the
\* entry of R changes or disappears only by a later join as R or by the leave
\* of the registered connection itself, so that targeted messages for R keep
\* going to the last connection that joined as R.
C17_LastWriterWins ==
  /\ [](req.op = "join" =>
          /\ req.vehicleId \in DOMAIN connectedClients
          /\ connectedClients[req.vehicleId] = req.socket)
  /\ [][\A r \in DOMAIN connectedClients :
          ( \/ r \notin DOMAIN connectedClients'
            \/ connectedClients'[r] # connectedClients[r] )
          => \/ req'.op = "join" /\ req'.vehicleId = r
             \/ req'.op = "disconnect" /\ req'.socket = connectedClients[r]]_vars

C19_MissionBroadcast ==
  ( /\ req.op \in {"POST /api/mission/start", "POST /api/mission/complete"}
    /\ res.status = 200 ) =>
    \E i \in 1..Len(emitted) :
      /\ emitted[i].to = OpenSockets
      /\ emitted[i].payload = mission[1]

\* C20: after a position:update, stealth:toggle, alert:validate or
\* alert:dismiss that was rejected (coordinates that are not finite numbers,
\* an unknown vehicle id, an unknown alert id), something has been emitted,
\* and all of it to the acting connection alone.
C20_RejectionReported ==
  ( \/ /\ req.op = "position:update"
       /\ \/ req.latitude.k # "num"
          \/ req.longitude.k # "num"
          \/ req.vehicleId \notin DOMAIN vehicles
    \/ /\ req.op = "stealth:toggle"
       /\ req.vehicleId \notin DOMAIN vehicles
    \/ /\ req.op \in {"alert:validate", "alert:dismiss"}
       /\ req.alertId \notin DOMAIN alerts ) =>
    /\ emitted # << >>
    /\ \A i \in 1..Len(emitted) : emitted[i].to = {req.socket}

\* C21: after a complete-mission request during which the narrative
\* service failed, the mission is COMPLETED, its completedAt is set, its
\* debriefing text is the placeholder, and the request was answered 200 with
\* the updated mission.
C21_CompleteSurvivesAdapterFailure ==
  (req.op = "POST /api/mission/complete" /\ req.answer = "error") =>
    /\ mission # << >>
    /\ mission[1].status = "COMPLETED"
    /\ mission[1].completedAt # NoTime
    /\ mission[1].completedAt <= now
    /\ mission[1].debriefingContent = DebriefPlaceholder
    /\ res.status = 200
    /\ res.body = mission[1]

\* C21 witness: a mission was completed while the narrative service failed.
C21_Witness ==
  /\ req.op = "POST /api/mission/complete"
  /\ req.answer = "error"
  /\ mission # << >>
  /\ mission[1].status = "COMPLETED"
  /\ mission[1].debriefingContent = DebriefPlaceholder
  /\ res.status = 200


\* C22: the audit trail is append-only: in every step the connection logs and
\* the route change records that exist keep their place and their contents;
\* a step can only add records after them.
IsPrefix(a, b) == Len(a) <= Len(b) /\ \A i \in 1..Len(a) : b[i] = a[i]
C22_AppendOnly ==
  /\ IsPrefix(connectionLogs, connectionLogs')
  /\ IsPrefix(routeChanges, routeChanges')
C22_AuditAppendOnly == [][C22_AppendOnly]_vars
C22_Witness ==
  /\ Len(connectionLogs) = MaxLogs
  /\ Len(routeChanges) = MaxRouteChanges
  /\ connectionLogs[1].eventType = "CONNECTED"
  /\ connectionLogs[2].eventType = "DISCONNECTED"


\* C23: classification is not on the critical path of alert creation: while
\* an alert:create with an image waits for the classification service, its
\* alert is already in the store, PENDING and without analysis, the result
\* being attached by a later mutation.
C23_CommittedBeforeClassification ==
  \A i \in 1..Len(pending) :
    pending[i].op = "alert:create" =>
      \E k \in 1..Len(alerts) :
        /\ alerts[k].status = "PENDING"
        /\ alerts[k].imageUrl = pending[i].imageUrl
        /\ alerts[k].type = pending[i].type
        /\ alerts[k].aiAnalysis = Null

\* C24: intents of one connection take effect in arrival order: when an
\* alert:create without an image has stored and broadcast its alert, no
\* alert:create that the same connection sent before it is still waiting to
\* store its own.
C24_ArrivalOrder ==
  (req.op = "alert:create" /\ req.answer = "none") =>
    \A i \in 1..Len(pending) :
      ~(pending[i].op = "alert:create" /\ pending[i].socket = req.socket)


\* C25 as stated: the vehicle set consists of exactly the seven roles
\* CONVOY_1..CONVOY_4, RECO, A400M and PC, in every reachable state.
C25_SevenVehicles == DOMAIN vehicles = Roles

\* C25 amended: the vehicle set consists of exactly the six rows that
\* initializeVehicles writes, CONVOY_1..CONVOY_4, RECO and A400M; the command
\* post PC has no row; no operation adds or removes a vehicle.
C25_SixVehicles ==
  /\ DOMAIN vehicles = Roles \ {"PC"}
  /\ \A id \in DOMAIN vehicles : vehicles[id].id = id /\ vehicles[id].type = id

\* C25 witness: the command post has joined and has sent a stealth:toggle in
\* its own name, while CONVOY_1 was connected and had moved.
C25_Witness ==
  /\ req.op = "stealth:toggle"
  /\ req.vehicleId = "PC"
  /\ "PC" \in DOMAIN connectedClients
  /\ vehicles["CONVOY_1"].isConnected
  /\ vehicles["CONVOY_1"].latitude = 17421799


\* C26: the waypoints of the current mission (all waypoints when there is no
\* mission) have pairwise distinct order indices, after any sequence of
\* creations with automatic order index, updates and deletions.
C26_DistinctOrderIndices ==
  LET current == {i \in 1..Len(waypoints) :
                    \/ getCurrentMission = << >>
                    \/ waypoints[i].missionId = getCurrentMission[1].id}
  IN \A i, j \in current : i # j => waypoints[i].orderIndex # waypoints[j].orderIndex


\* C27: a replacement survives the departure of the connection it replaced:
\* whenever a connection that is still open last joined as role R, the
\* registry maps R to an open connection and the vehicle of R, if it has one,
\* is marked connected.
C27_ReplacementSurvives ==
  \A s \in SocketIds :
    (sockets[s].status = "open" /\ sockets[s].vehicleId # Null) =>
      LET R == sockets[s].vehicleId
      IN /\ R \in DOMAIN connectedClients
         /\ sockets[connectedClients[R]].status = "open"
         /\ R \in DOMAIN vehicles => vehicles[R].isConnected

\* C28: every entry of the registry is current: each role maps to a
\* connection that is open and whose last join was for that role; and a
\* vehicle is marked connected only while some open connection's last join
\* was for it.
C28_RegistryCurrent ==
  /\ \A r \in DOMAIN connectedClients :
       /\ sockets[connectedClients[r]].status = "open"
       /\ sockets[connectedClients[r]].vehicleId = r
  /\ \A id \in DOMAIN vehicles :
       vehicles[id].isConnected =>
         \E s \in SocketIds : sockets[s].status = "open" /\ sockets[s].vehicleId = id


\* C29: snapshot and deltas compose: the alert list of a client whose
\* connection is open and has received the alerts:sync of its join holds
\* every alert of the store exactly once, as the store has it.
C29_SnapshotAndDeltasCompose ==
  \A s \in SocketIds :
    ( /\ sockets[s].status = "open"
      /\ sockets[s].vehicleId # Null
      /\ \A i \in 1..Len(pending) :
           ~(pending[i].op = "join" /\ pending[i].socket = s /\ pending[i].step = "sync") )
    => \A k \in 1..Len(alerts) :
         /\ Cardinality({j \in 1..Len(clientAlerts[s]) :
                           clientAlerts[s][j].id = alerts[k].id}) = 1
         /\ \E j \in 1..Len(clientAlerts[s]) : clientAlerts[s][j] = alerts[k]

\* C30: broadcast vehicle state never regresses: every vehicles:sync that a
\* handler has just emitted carries the vehicles as the store holds them at
\* that moment.
C30_SyncReflectsStore ==
  \A i \in 1..Len(emitted) :
    emitted[i].event = "vehicles:sync" => emitted[i].payload = getVehicles(vehicles)

=============================================================================
